---- MODULE Spec2Model ----
(***************************************************************************)
(* Model of the `monitor` command of perun (src/perun/cli.py): one         *)
(* orchestrating process per MPI rank, an optional sampling subprocess per *)
(* rank, the MPI barrier, the shared output directory and the experiment   *)
(* storage.  Program positions are named after the source line they stand  *)
(* at ("L122" is the process about to execute line 122 of cli.py).         *)
(***************************************************************************)
EXTENDS Naturals, Integers, Sequences, FiniteSets, TLC

\* ---------------------------------------------------------------- bounds
NumProcs == 2
MaxSamples == 1

\* capacity of the pipe under the hand-off Queue, in units of Size: scaled so
\* that the largest buffer the subprocess can accumulate does not fit
PipeCapacity == MaxSamples

Ranks == 0 .. (NumProcs - 1)
\* device ids: the sensor of the node of each rank
Devices == Ranks

VARIABLES
  assignment,     \* hardware inventory: rank -> set of device ids it owns
  outPathExists,  \* the output directory exists on the shared filesystem
  mkdirCalls,     \* rank -> number of outPath.mkdir calls it made
  pc,             \* rank -> position of monitor()
  lDeviceIds,     \* rank -> device ids resolved by this process
  start_event,    \* rank -> multiprocessing.Event shared with the subprocess
  stop_event,     \* rank -> multiprocessing.Event shared with the subprocess
  stopSetCalls,   \* rank -> number of stop_event.set() calls
  perunSP,        \* rank -> state of the sampling subprocess
  spawnCalls,     \* rank -> number of perunSP.start() calls
  samples,        \* rank -> readings accumulated by the subprocess
  queue,          \* rank -> items put on the hand-off Queue, not yet got
  feeder,         \* rank -> units of the put item still buffered in the subprocess
  pipe,           \* rank -> units of the put item sitting in the Queue's pipe
  recvd,          \* rank -> units of the item already read by queue.get()
  lStrg,          \* rank -> result collected by the orchestrator
  bcount,         \* rank -> number of comm.barrier() calls entered
  inBarrier,      \* rank -> blocked inside comm.barrier()
  workload,       \* rank -> how the exec of the script ended
  expStrg,        \* rank -> state of the ExperimentStorage handle
  runs,           \* rank -> runs registered through addExperimentRun
  deviceData,     \* rank -> buffers stored through saveDeviceData
  postCalls,      \* rank -> number of perun.postprocessing calls
  reportCalls,    \* rank -> number of reports printed
  outcome         \* rank -> how the command ended

chan == << feeder, pipe, recvd >>

vars == << chan, assignment, outPathExists, mkdirCalls, pc, lDeviceIds, start_event,
           stop_event, stopSetCalls, perunSP, spawnCalls, samples, queue,
           lStrg, bcount, inBarrier, workload, expStrg, runs, deviceData,
           postCalls, reportCalls, outcome >>

\* ------------------------------------------------------------- data
Unset == [kind |-> "unset", n |-> 0]
None == [kind |-> "None", n |-> 0]
LocalStorage(k) == [kind |-> "LocalStorage", n |-> k]

\* units the pickled item occupies in the pipe: it grows with the readings
Size(item) == item.n + 1

\* each device is owned by at most one process; a process may own none
DeviceAssignments ==
  { a \in [Ranks -> SUBSET Devices] :
      /\ \A p \in Ranks : a[p] \subseteq {p}
      /\ \A p, q \in Ranks : p # q => a[p] \cap a[q] = {} }

BarrierLines == {"L122", "L146", "L166", "L168", "L172"}

AfterBarrier(l) ==
  CASE l = "L122" -> "L126"
    [] l = "L146" -> "L150"
    [] l = "L166" -> "L167"
    [] l = "L168" -> "L169"
    [] l = "L172" -> "L173"

\* the command is over: it returned, or an exception left it
Ended(r) == pc[r] \in {"returned", "raised"}

Init ==
  /\ assignment \in DeviceAssignments
  /\ outPathExists \in BOOLEAN
  /\ mkdirCalls = [r \in Ranks |-> 0]
  /\ pc = [r \in Ranks |-> "L104"]
  /\ lDeviceIds = [r \in Ranks |-> {}]
  /\ start_event = [r \in Ranks |-> FALSE]
  /\ stop_event = [r \in Ranks |-> FALSE]
  /\ stopSetCalls = [r \in Ranks |-> 0]
  /\ perunSP = [r \in Ranks |-> "none"]
  /\ spawnCalls = [r \in Ranks |-> 0]
  /\ samples = [r \in Ranks |-> 0]
  /\ queue = [r \in Ranks |-> << >>]
  /\ feeder = [r \in Ranks |-> 0]
  /\ pipe = [r \in Ranks |-> 0]
  /\ recvd = [r \in Ranks |-> 0]
  /\ lStrg = [r \in Ranks |-> Unset]
  /\ bcount = [r \in Ranks |-> 0]
  /\ inBarrier = [r \in Ranks |-> FALSE]
  /\ workload = [r \in Ranks |-> "pending"]
  /\ expStrg = [r \in Ranks |-> "unopened"]
  /\ runs = [r \in Ranks |-> << >>]
  /\ deviceData = [r \in Ranks |-> << >>]
  /\ postCalls = [r \in Ranks |-> 0]
  /\ reportCalls = [r \in Ranks |-> 0]
  /\ outcome = [r \in Ranks |-> "running"]

\* ------------------------------------------------------ orchestrator
\* line 104: lDeviceIds = perun.getDeviceConfiguration(comm, perun.backends)
GetDeviceConfiguration(r) ==
  /\ pc[r] = "L104"
  /\ lDeviceIds' = [lDeviceIds EXCEPT ![r] = assignment[r]]
  /\ pc' = [pc EXCEPT ![r] = "L112"]
  /\ UNCHANGED << chan, assignment, outPathExists, mkdirCalls, start_event,
                  stop_event, stopSetCalls, perunSP, spawnCalls, samples,
                  queue, lStrg, bcount, inBarrier, workload, expStrg, runs,
                  deviceData, postCalls, reportCalls, outcome >>

\* lines 112-118: devices assigned, create the Queue and start the subprocess
ProcessStart(r) ==
  /\ pc[r] = "L112"
  /\ Cardinality(lDeviceIds[r]) > 0
  /\ queue' = [queue EXCEPT ![r] = << >>]
  /\ perunSP' = [perunSP EXCEPT ![r] = "started"]
  /\ spawnCalls' = [spawnCalls EXCEPT ![r] = @ + 1]
  /\ pc' = [pc EXCEPT ![r] = "L119"]
  /\ UNCHANGED << chan, assignment, outPathExists, mkdirCalls, lDeviceIds,
                  start_event, stop_event, stopSetCalls, samples, lStrg,
                  bcount, inBarrier, workload, expStrg, runs, deviceData,
                  postCalls, reportCalls, outcome >>

\* line 112 false: no devices, fall through to the barrier of line 122
SkipSubprocess(r) ==
  /\ pc[r] = "L112"
  /\ Cardinality(lDeviceIds[r]) = 0
  /\ pc' = [pc EXCEPT ![r] = "L122"]
  /\ UNCHANGED << chan, assignment, outPathExists, mkdirCalls, lDeviceIds,
                  start_event, stop_event, stopSetCalls, perunSP, spawnCalls,
                  samples, queue, lStrg, bcount, inBarrier, workload, expStrg,
                  runs, deviceData, postCalls, reportCalls, outcome >>

StartEventIsSetNoWait(r) == TRUE

\* Event.wait() returns once the event is set
StartEventIsSet(r) == start_event[r]

\* line 119: start_event.wait()
StartEventWait(r) ==
  /\ pc[r] = "L119"
  /\ StartEventIsSet(r)
  /\ pc' = [pc EXCEPT ![r] = "L122"]
  /\ UNCHANGED << chan, assignment, outPathExists, mkdirCalls, lDeviceIds,
                  start_event, stop_event, stopSetCalls, perunSP, spawnCalls,
                  samples, queue, lStrg, bcount, inBarrier, workload, expStrg,
                  runs, deviceData, postCalls, reportCalls, outcome >>

\* comm.barrier() is entered (lines 122, 146, 166, 168, 172)
BarrierArrive(r) ==
  /\ pc[r] \in BarrierLines
  /\ ~inBarrier[r]
  /\ inBarrier' = [inBarrier EXCEPT ![r] = TRUE]
  /\ bcount' = [bcount EXCEPT ![r] = @ + 1]
  /\ UNCHANGED << chan, assignment, outPathExists, mkdirCalls, pc, lDeviceIds,
                  start_event, stop_event, stopSetCalls, perunSP, spawnCalls,
                  samples, queue, lStrg, workload, expStrg, runs, deviceData,
                  postCalls, reportCalls, outcome >>

BarrierCompleteNoWait(r) == TRUE

\* the k-th barrier call of a rank completes when every rank of the
\* communicator has made its k-th barrier call
BarrierComplete(r) == \A q \in Ranks : bcount[q] >= bcount[r]

\* comm.barrier() returns
BarrierReturn(r) ==
  /\ pc[r] \in BarrierLines
  /\ inBarrier[r]
  /\ BarrierComplete(r)
  /\ inBarrier' = [inBarrier EXCEPT ![r] = FALSE]
  /\ pc' = [pc EXCEPT ![r] = AfterBarrier(pc[r])]
  /\ UNCHANGED << chan, assignment, outPathExists, mkdirCalls, lDeviceIds,
                  start_event, stop_event, stopSetCalls, perunSP, spawnCalls,
                  samples, queue, lStrg, bcount, workload, expStrg, runs,
                  deviceData, postCalls, reportCalls, outcome >>

\* lines 125-127: the script is opened and executed, and returns
WorkloadReturns(r) ==
  /\ pc[r] = "L126"
  /\ workload' = [workload EXCEPT ![r] = "returned"]
  /\ pc' = [pc EXCEPT ![r] = "L134"]
  /\ UNCHANGED << chan, assignment, outPathExists, mkdirCalls, lDeviceIds,
                  start_event, stop_event, stopSetCalls, perunSP, spawnCalls,
                  samples, queue, lStrg, bcount, inBarrier, expStrg, runs,
                  deviceData, postCalls, reportCalls, outcome >>

\* lines 125-128: open or exec raises an Exception, caught by line 128
WorkloadRaisesException(r) ==
  /\ pc[r] = "L126"
  /\ workload' = [workload EXCEPT ![r] = "Exception"]
  /\ pc' = [pc EXCEPT ![r] = "L131"]
  /\ UNCHANGED << chan, assignment, outPathExists, mkdirCalls, lDeviceIds,
                  start_event, stop_event, stopSetCalls, perunSP, spawnCalls,
                  samples, queue, lStrg, bcount, inBarrier, expStrg, runs,
                  deviceData, postCalls, reportCalls, outcome >>

\* lines 125-128: exec raises SystemExit or KeyboardInterrupt, which
\* `except Exception` does not catch: the exception leaves monitor()
WorkloadRaisesBaseException(r) ==
  /\ pc[r] = "L126"
  /\ workload' = [workload EXCEPT ![r] = "BaseException"]
  /\ pc' = [pc EXCEPT ![r] = "raised"]
  /\ outcome' = [outcome EXCEPT ![r] = "error"]
  /\ UNCHANGED << chan, assignment, outPathExists, mkdirCalls, lDeviceIds,
                  start_event, stop_event, stopSetCalls, perunSP, spawnCalls,
                  samples, queue, lStrg, bcount, inBarrier, expStrg, runs,
                  deviceData, postCalls, reportCalls >>

ExceptHandlerFallsThrough(r) ==
  /\ pc[r] = "L131"
  /\ stop_event' = [stop_event EXCEPT ![r] = TRUE]
  /\ stopSetCalls' = [stopSetCalls EXCEPT ![r] = @ + 1]
  /\ pc' = [pc EXCEPT ![r] = "L134"]
  /\ UNCHANGED << chan, assignment, outPathExists, mkdirCalls, lDeviceIds,
                  start_event, perunSP, spawnCalls, samples, queue, lStrg,
                  bcount, inBarrier, workload, expStrg, runs, deviceData,
                  postCalls, reportCalls, outcome >>

\* lines 128-132: log the error, stop_event.set(), return
ExceptHandler(r) ==
  /\ pc[r] = "L131"
  /\ stop_event' = [stop_event EXCEPT ![r] = TRUE]
  /\ stopSetCalls' = [stopSetCalls EXCEPT ![r] = @ + 1]
  /\ pc' = [pc EXCEPT ![r] = "returned"]
  /\ outcome' = [outcome EXCEPT ![r] = "success"]
  /\ UNCHANGED << chan, assignment, outPathExists, mkdirCalls, lDeviceIds,
                  start_event, perunSP, spawnCalls, samples, queue, lStrg,
                  bcount, inBarrier, workload, expStrg, runs, deviceData,
                  postCalls, reportCalls >>

\* line 134: stop_event.set()
StopEventSet(r) ==
  /\ pc[r] = "L134"
  /\ stop_event' = [stop_event EXCEPT ![r] = TRUE]
  /\ stopSetCalls' = [stopSetCalls EXCEPT ![r] = @ + 1]
  /\ pc' = [pc EXCEPT ![r] = "L138"]
  /\ UNCHANGED << chan, assignment, outPathExists, mkdirCalls, lDeviceIds,
                  start_event, perunSP, spawnCalls, samples, queue, lStrg,
                  bcount, inBarrier, workload, expStrg, runs, deviceData,
                  postCalls, reportCalls, outcome >>

\* lines 138-140: perunSP.join() returns once the subprocess has exited,
\* then perunSP.close()
JoinSubprocess(r) ==
  /\ pc[r] = "L138"
  /\ Cardinality(lDeviceIds[r]) > 0
  /\ perunSP[r] \in {"terminated", "failed"}
  /\ perunSP' = [perunSP EXCEPT ![r] = "closed"]
  /\ pc' = [pc EXCEPT ![r] = "L141"]
  /\ UNCHANGED << chan, assignment, outPathExists, mkdirCalls, lDeviceIds,
                  start_event, stop_event, stopSetCalls, spawnCalls, samples,
                  queue, lStrg, bcount, inBarrier, workload, expStrg, runs,
                  deviceData, postCalls, reportCalls, outcome >>

\* line 141: queue.get() reads the next part of the item from the pipe
QueueRecv(r) ==
  /\ pc[r] = "L141"
  /\ pipe[r] > 0
  /\ pipe' = [pipe EXCEPT ![r] = @ - 1]
  /\ recvd' = [recvd EXCEPT ![r] = @ + 1]
  /\ UNCHANGED << feeder, assignment, outPathExists, mkdirCalls, pc,
                  lDeviceIds, start_event, stop_event, stopSetCalls, perunSP,
                  spawnCalls, samples, queue, lStrg, bcount, inBarrier,
                  workload, expStrg, runs, deviceData, postCalls, reportCalls,
                  outcome >>

\* line 141: lStrg = queue.get() returns once the whole item has been read
QueueGet(r) ==
  /\ pc[r] = "L141"
  /\ Len(queue[r]) > 0
  /\ recvd[r] = Size(Head(queue[r]))
  /\ lStrg' = [lStrg EXCEPT ![r] = Head(queue[r])]
  /\ queue' = [queue EXCEPT ![r] = Tail(queue[r])]
  /\ recvd' = [recvd EXCEPT ![r] = 0]
  /\ pc' = [pc EXCEPT ![r] = "L146"]
  /\ UNCHANGED << feeder, pipe, assignment, outPathExists, mkdirCalls,
                  lDeviceIds, start_event, stop_event, stopSetCalls, perunSP,
                  spawnCalls, samples, bcount, inBarrier, workload, expStrg,
                  runs, deviceData, postCalls, reportCalls, outcome >>

NoSubprocessResultSkipsBarrier(r) ==
  /\ pc[r] = "L138"
  /\ Cardinality(lDeviceIds[r]) = 0
  /\ lStrg' = [lStrg EXCEPT ![r] = None]
  /\ pc' = [pc EXCEPT ![r] = "L150"]
  /\ UNCHANGED << chan, assignment, outPathExists, mkdirCalls, lDeviceIds,
                  start_event, stop_event, stopSetCalls, perunSP, spawnCalls,
                  samples, queue, bcount, inBarrier, workload, expStrg, runs,
                  deviceData, postCalls, reportCalls, outcome >>

\* lines 142-143: no devices, lStrg = None
NoSubprocessResult(r) ==
  /\ pc[r] = "L138"
  /\ Cardinality(lDeviceIds[r]) = 0
  /\ lStrg' = [lStrg EXCEPT ![r] = None]
  /\ pc' = [pc EXCEPT ![r] = "L146"]
  /\ UNCHANGED << chan, assignment, outPathExists, mkdirCalls, lDeviceIds,
                  start_event, stop_event, stopSetCalls, perunSP, spawnCalls,
                  samples, queue, bcount, inBarrier, workload, expStrg, runs,
                  deviceData, postCalls, reportCalls, outcome >>

EnsureOutPathAnyRank(r) ==
  /\ pc[r] = "L150"
  /\ IF ~outPathExists
       THEN /\ outPathExists' = TRUE
            /\ mkdirCalls' = [mkdirCalls EXCEPT ![r] = @ + 1]
       ELSE UNCHANGED << outPathExists, mkdirCalls >>
  /\ pc' = [pc EXCEPT ![r] = "L157"]
  /\ UNCHANGED << chan, assignment, lDeviceIds, start_event, stop_event,
                  stopSetCalls, perunSP, spawnCalls, samples, queue, lStrg,
                  bcount, inBarrier, workload, expStrg, runs, deviceData,
                  postCalls, reportCalls, outcome >>

\* lines 150-152: rank 0 creates the output directory when it is missing
EnsureOutPath(r) ==
  /\ pc[r] = "L150"
  /\ IF r = 0 /\ ~outPathExists
       THEN /\ outPathExists' = TRUE
            /\ mkdirCalls' = [mkdirCalls EXCEPT ![r] = @ + 1]
       ELSE UNCHANGED << outPathExists, mkdirCalls >>
  /\ pc' = [pc EXCEPT ![r] = "L157"]
  /\ UNCHANGED << chan, assignment, lDeviceIds, start_event, stop_event,
                  stopSetCalls, perunSP, spawnCalls, samples, queue, lStrg,
                  bcount, inBarrier, workload, expStrg, runs, deviceData,
                  postCalls, reportCalls, outcome >>

\* line 157: expStrg = perun.ExperimentStorage(resultPath, comm)
OpenExperimentStorage(r) ==
  /\ pc[r] = "L157"
  /\ expStrg' = [expStrg EXCEPT ![r] = "open"]
  /\ pc' = [pc EXCEPT ![r] = "L158"]
  /\ UNCHANGED << chan, assignment, outPathExists, mkdirCalls, lDeviceIds,
                  start_event, stop_event, stopSetCalls, perunSP, spawnCalls,
                  samples, queue, lStrg, bcount, inBarrier, workload, runs,
                  deviceData, postCalls, reportCalls, outcome >>

AddExperimentRunOnlyWithData(r) ==
  /\ pc[r] = "L158"
  /\ runs' = [runs EXCEPT ![r] = IF lStrg[r] # None THEN Append(@, lStrg[r]) ELSE @]
  /\ pc' = [pc EXCEPT ![r] = IF lStrg[r] # None THEN "L161" ELSE "L166"]
  /\ UNCHANGED << chan, assignment, outPathExists, mkdirCalls, lDeviceIds,
                  start_event, stop_event, stopSetCalls, perunSP, spawnCalls,
                  samples, queue, lStrg, bcount, inBarrier, workload, expStrg,
                  deviceData, postCalls, reportCalls, outcome >>

\* lines 158-160 and 162-163: expId = expStrg.addExperimentRun(...)
AddExperimentRun(r) ==
  /\ pc[r] = "L158"
  /\ runs' = [runs EXCEPT ![r] = Append(@, lStrg[r])]
  /\ pc' = [pc EXCEPT ![r] = IF lStrg[r] # None THEN "L161" ELSE "L166"]
  /\ UNCHANGED << chan, assignment, outPathExists, mkdirCalls, lDeviceIds,
                  start_event, stop_event, stopSetCalls, perunSP, spawnCalls,
                  samples, queue, lStrg, bcount, inBarrier, workload, expStrg,
                  deviceData, postCalls, reportCalls, outcome >>

\* line 161: expStrg.saveDeviceData(expId, lStrg)
SaveDeviceData(r) ==
  /\ pc[r] = "L161"
  /\ deviceData' = [deviceData EXCEPT ![r] = Append(@, lStrg[r])]
  /\ pc' = [pc EXCEPT ![r] = "L166"]
  /\ UNCHANGED << chan, assignment, outPathExists, mkdirCalls, lDeviceIds,
                  start_event, stop_event, stopSetCalls, perunSP, spawnCalls,
                  samples, queue, lStrg, bcount, inBarrier, workload, expStrg,
                  runs, postCalls, reportCalls, outcome >>

\* lines 157-167: a storage or postprocessing call raises; nothing in
\* monitor() catches it, so the exception leaves the command
StorageCallRaises(r) ==
  /\ pc[r] \in {"L157", "L158", "L161", "L167"}
  /\ pc' = [pc EXCEPT ![r] = "raised"]
  /\ outcome' = [outcome EXCEPT ![r] = "error"]
  /\ UNCHANGED << chan, assignment, outPathExists, mkdirCalls, lDeviceIds,
                  start_event, stop_event, stopSetCalls, perunSP, spawnCalls,
                  samples, queue, lStrg, bcount, inBarrier, workload, expStrg,
                  runs, deviceData, postCalls, reportCalls >>

\* line 167: perun.postprocessing(expStorage=expStrg)
Postprocessing(r) ==
  /\ pc[r] = "L167"
  /\ postCalls' = [postCalls EXCEPT ![r] = @ + 1]
  /\ pc' = [pc EXCEPT ![r] = "L168"]
  /\ UNCHANGED << chan, assignment, outPathExists, mkdirCalls, lDeviceIds,
                  start_event, stop_event, stopSetCalls, perunSP, spawnCalls,
                  samples, queue, lStrg, bcount, inBarrier, workload, expStrg,
                  runs, deviceData, reportCalls, outcome >>

ReportSkipsBarrier(r) ==
  /\ pc[r] = "L169"
  /\ reportCalls' = [reportCalls EXCEPT ![r] = IF r = 0 THEN @ + 1 ELSE @]
  /\ pc' = [pc EXCEPT ![r] = "L173"]
  /\ UNCHANGED << chan, assignment, outPathExists, mkdirCalls, lDeviceIds,
                  start_event, stop_event, stopSetCalls, perunSP, spawnCalls,
                  samples, queue, lStrg, bcount, inBarrier, workload, expStrg,
                  runs, deviceData, postCalls, outcome >>

ReportAnyRank(r) ==
  /\ pc[r] = "L169"
  /\ reportCalls' = [reportCalls EXCEPT ![r] = @ + 1]
  /\ pc' = [pc EXCEPT ![r] = "L172"]
  /\ UNCHANGED << chan, assignment, outPathExists, mkdirCalls, lDeviceIds,
                  start_event, stop_event, stopSetCalls, perunSP, spawnCalls,
                  samples, queue, lStrg, bcount, inBarrier, workload, expStrg,
                  runs, deviceData, postCalls, outcome >>

\* lines 169-170: rank 0 prints the report
Report(r) ==
  /\ pc[r] = "L169"
  /\ reportCalls' = [reportCalls EXCEPT ![r] = IF r = 0 THEN @ + 1 ELSE @]
  /\ pc' = [pc EXCEPT ![r] = "L172"]
  /\ UNCHANGED << chan, assignment, outPathExists, mkdirCalls, lDeviceIds,
                  start_event, stop_event, stopSetCalls, perunSP, spawnCalls,
                  samples, queue, lStrg, bcount, inBarrier, workload, expStrg,
                  runs, deviceData, postCalls, outcome >>

\* line 173: expStrg.close(), and monitor() returns
Close(r) ==
  /\ pc[r] = "L173"
  /\ expStrg' = [expStrg EXCEPT ![r] = "closed"]
  /\ pc' = [pc EXCEPT ![r] = "returned"]
  /\ outcome' = [outcome EXCEPT ![r] = "success"]
  /\ UNCHANGED << chan, assignment, outPathExists, mkdirCalls, lDeviceIds,
                  start_event, stop_event, stopSetCalls, perunSP, spawnCalls,
                  samples, queue, lStrg, bcount, inBarrier, workload, runs,
                  deviceData, postCalls, reportCalls >>

\* ------------------------------------------------- sampling subprocess
\* perun.perunSubprocess: initialisation done, readiness is signaled
SubprocessReady(r) ==
  /\ perunSP[r] = "started"
  /\ start_event' = [start_event EXCEPT ![r] = TRUE]
  /\ perunSP' = [perunSP EXCEPT ![r] = "sampling"]
  /\ UNCHANGED << chan, assignment, outPathExists, mkdirCalls, pc, lDeviceIds,
                  stop_event, stopSetCalls, spawnCalls, samples, queue, lStrg,
                  bcount, inBarrier, workload, expStrg, runs, deviceData,
                  postCalls, reportCalls, outcome >>

\* perun.perunSubprocess: the subprocess dies before signaling readiness
SubprocessFails(r) ==
  /\ perunSP[r] = "started"
  /\ perunSP' = [perunSP EXCEPT ![r] = "failed"]
  /\ UNCHANGED << chan, assignment, outPathExists, mkdirCalls, pc, lDeviceIds,
                  start_event, stop_event, stopSetCalls, spawnCalls, samples,
                  queue, lStrg, bcount, inBarrier, workload, expStrg, runs,
                  deviceData, postCalls, reportCalls, outcome >>

\* perun.perunSubprocess: one pass of the sampling loop
SubprocessSample(r) ==
  /\ perunSP[r] = "sampling"
  /\ samples[r] < MaxSamples
  /\ samples' = [samples EXCEPT ![r] = @ + 1]
  /\ UNCHANGED << chan, assignment, outPathExists, mkdirCalls, pc, lDeviceIds,
                  start_event, stop_event, stopSetCalls, perunSP, spawnCalls,
                  queue, lStrg, bcount, inBarrier, workload, expStrg, runs,
                  deviceData, postCalls, reportCalls, outcome >>

\* perun.perunSubprocess: stop observed, the buffer is finalized and put on
\* the queue; Queue.put hands the item to the queue's feeder thread
SubprocessStop(r) ==
  /\ perunSP[r] = "sampling"
  /\ stop_event[r]
  /\ queue' = [queue EXCEPT ![r] = Append(@, LocalStorage(samples[r]))]
  /\ feeder' = [feeder EXCEPT ![r] = Size(LocalStorage(samples[r]))]
  /\ perunSP' = [perunSP EXCEPT ![r] = "flushing"]
  /\ UNCHANGED << pipe, recvd, assignment, outPathExists, mkdirCalls, pc,
                  lDeviceIds, start_event, stop_event, stopSetCalls,
                  spawnCalls, samples, lStrg, bcount, inBarrier, workload,
                  expStrg, runs, deviceData, postCalls, reportCalls, outcome >>

\* multiprocessing.Queue feeder thread of the subprocess: writes the next
\* part of the item to the pipe, blocking while the pipe is full
FeederWrite(r) ==
  /\ perunSP[r] = "flushing"
  /\ feeder[r] > 0
  /\ pipe[r] < PipeCapacity
  /\ feeder' = [feeder EXCEPT ![r] = @ - 1]
  /\ pipe' = [pipe EXCEPT ![r] = @ + 1]
  /\ UNCHANGED << recvd, assignment, outPathExists, mkdirCalls, pc,
                  lDeviceIds, start_event, stop_event, stopSetCalls, perunSP,
                  spawnCalls, samples, queue, lStrg, bcount, inBarrier,
                  workload, expStrg, runs, deviceData, postCalls, reportCalls,
                  outcome >>

\* the subprocess exits: a process that has put an item on a Queue joins the
\* feeder thread, so it exits only when the whole item is in the pipe
SubprocessExit(r) ==
  /\ perunSP[r] = "flushing"
  /\ feeder[r] = 0
  /\ perunSP' = [perunSP EXCEPT ![r] = "terminated"]
  /\ UNCHANGED << chan, assignment, outPathExists, mkdirCalls, pc, lDeviceIds,
                  start_event, stop_event, stopSetCalls, spawnCalls, samples,
                  queue, lStrg, bcount, inBarrier, workload, expStrg, runs,
                  deviceData, postCalls, reportCalls, outcome >>

\* ------------------------------------------------------ specification
Next ==
  \E r \in Ranks :
    \/ GetDeviceConfiguration(r)
    \/ ProcessStart(r)
    \/ SkipSubprocess(r)
    \/ StartEventWait(r)
    \/ BarrierArrive(r)
    \/ BarrierReturn(r)
    \/ WorkloadReturns(r)
    \/ WorkloadRaisesException(r)
    \/ WorkloadRaisesBaseException(r)
    \/ ExceptHandler(r)
    \/ StopEventSet(r)
    \/ JoinSubprocess(r)
    \/ QueueRecv(r)
    \/ QueueGet(r)
    \/ NoSubprocessResult(r)
    \/ EnsureOutPath(r)
    \/ OpenExperimentStorage(r)
    \/ AddExperimentRun(r)
    \/ SaveDeviceData(r)
    \/ StorageCallRaises(r)
    \/ Postprocessing(r)
    \/ Report(r)
    \/ Close(r)
    \/ SubprocessReady(r)
    \/ SubprocessFails(r)
    \/ SubprocessSample(r)
    \/ SubprocessStop(r)
    \/ FeederWrite(r)
    \/ SubprocessExit(r)

Spec == Init /\ [][Next]_vars

\* every step monitor() can take in process r
OrchestratorStep(r) ==
  \/ GetDeviceConfiguration(r) \/ ProcessStart(r) \/ SkipSubprocess(r)
  \/ StartEventWait(r) \/ BarrierArrive(r) \/ BarrierReturn(r)
  \/ WorkloadReturns(r) \/ WorkloadRaisesException(r)
  \/ WorkloadRaisesBaseException(r) \/ ExceptHandler(r) \/ StopEventSet(r)
  \/ JoinSubprocess(r) \/ QueueRecv(r) \/ QueueGet(r) \/ NoSubprocessResult(r)
  \/ EnsureOutPath(r) \/ OpenExperimentStorage(r) \/ AddExperimentRun(r)
  \/ SaveDeviceData(r) \/ StorageCallRaises(r) \/ Postprocessing(r)
  \/ Report(r) \/ Close(r)

\* every step the sampling subprocess of process r can take
SubprocessStep(r) ==
  \/ SubprocessReady(r) \/ SubprocessFails(r) \/ SubprocessSample(r)
  \/ SubprocessStop(r) \/ FeederWrite(r) \/ SubprocessExit(r)

\* the operating system keeps scheduling every process that can run, and the
\* script and the calls monitor() makes come to an end
FairSpec ==
  /\ Init
  /\ [][Next]_vars
  /\ \A r \in Ranks : WF_vars(OrchestratorStep(r)) /\ WF_vars(SubprocessStep(r))

TypeOK ==
  /\ assignment \in DeviceAssignments
  /\ outPathExists \in BOOLEAN
  /\ \A r \in Ranks :
       /\ perunSP[r] \in {"none", "started", "sampling", "failed", "flushing",
                          "terminated", "closed"}
       /\ feeder[r] \in 0 .. (MaxSamples + 1)
       /\ pipe[r] \in 0 .. PipeCapacity
       /\ recvd[r] \in 0 .. (MaxSamples + 1)
       /\ workload[r] \in {"pending", "returned", "Exception", "BaseException"}
       /\ expStrg[r] \in {"unopened", "open", "closed"}
       /\ outcome[r] \in {"running", "success", "error"}
       /\ samples[r] \in 0 .. MaxSamples
       /\ bcount[r] \in 0 .. 5
       /\ lStrg[r].kind \in {"unset", "None", "LocalStorage"}

\* ------------------------------------------------------------ properties
WorkloadFailed(r) == workload[r] \in {"Exception", "BaseException"}

\* the process is past its k-th barrier call
PastBarrier(r, k) == bcount[r] >= k /\ ~(bcount[r] = k /\ inBarrier[r])

\* the process has completed its persistence step
PersistenceDone(r) ==
  /\ Len(runs[r]) = 1
  /\ lStrg[r] # None => Len(deviceData[r]) = 1

\* the process has finished the workload, signaled stop and collected
ResultCollected(r) ==
  /\ workload[r] = "returned"
  /\ stop_event[r]
  /\ lStrg[r] # Unset

\* C1: if the workload of at least one process raises, no process of the
\* collective ever calls addExperimentRun or saveDeviceData.
C1_NoRunPersistedOnFailure ==
  (\E r \in Ranks : WorkloadFailed(r)) =>
     \A q \in Ranks : runs[q] = << >> /\ deviceData[q] = << >>

\* C1 witness: one workload failed and its handler ended the command while
\* a peer whose workload returned is blocked in the barrier of line 146.
C1_Witness ==
  \E r, q \in Ranks :
    /\ WorkloadFailed(r) /\ Ended(r)
    /\ workload[q] = "returned" /\ pc[q] = "L146" /\ inBarrier[q]

\* C2: when the workload of a process fails, the command of that process
\* ends with an error outcome, never with a success outcome.
C2_FailureGivesErrorOutcome ==
  \A r \in Ranks : (WorkloadFailed(r) /\ Ended(r)) => outcome[r] = "error"

\* C3: on a workload failure in a process that started a subprocess, the
\* command does not end before the subprocess has been joined and its
\* queue drained.
C3_SubprocessJoinedOnFailure ==
  \A r \in Ranks :
    (WorkloadFailed(r) /\ Ended(r) /\ spawnCalls[r] > 0) =>
       (perunSP[r] = "closed" /\ lStrg[r] # Unset)

\* C4: however the workload ends once started (return, Exception,
\* SystemExit/KeyboardInterrupt), the command does not end without the
\* stop signal having been set.
C4_StopSetWhateverTheOutcome ==
  \A r \in Ranks : (workload[r] # "pending" /\ Ended(r)) => stop_event[r]

C6_EmptyDeviceListNoSubprocess ==
  /\ [](\A r \in Ranks :
          /\ assignment[r] = {} =>
               (spawnCalls[r] = 0 /\ perunSP[r] = "none" /\ pc[r] # "L119")
          /\ assignment[r] # {} =>
               /\ spawnCalls[r] <= 1
               /\ bcount[r] >= 1 => (spawnCalls[r] = 1 /\ start_event[r]))
  /\ [][\A r \in Ranks :
          (pc[r] = "L112" /\ lDeviceIds[r] = {}) => pc'[r] \in {"L112", "L122"}]_vars

\* C6 witness: a process without devices and a process with devices are both
\* inside the first barrier, the latter with its subprocess ready.
C6_Witness ==
  \E r, q \in Ranks :
    /\ assignment[r] = {} /\ bcount[r] = 1 /\ inBarrier[r] /\ spawnCalls[r] = 0
    /\ assignment[q] # {} /\ bcount[q] = 1 /\ spawnCalls[q] = 1 /\ start_event[q]

\* C7: no process is past the barrier of line 122 (about to run, or having
\* run, its workload) unless every process that owns devices has started
\* its subprocess and returned from start_event.wait().
C7_WorkloadAfterAllReady ==
  \A r \in Ranks :
    PastBarrier(r, 1) =>
      \A q \in Ranks :
        /\ pc[q] \notin {"L104", "L112", "L119"}
        /\ assignment[q] # {} => (spawnCalls[q] = 1 /\ start_event[q])

\* C7 witness: two processes own devices and one of them is executing its
\* workload.
C7_Witness ==
  \E r, q \in Ranks :
    /\ r # q /\ assignment[r] # {} /\ assignment[q] # {}
    /\ pc[r] = "L126"

\* C8: whenever a process opens the experiment storage (line 157), the
\* output directory already exists.
C8_OutPathExistsAtOpen ==
  [][\A r \in Ranks :
       (pc[r] = "L157" /\ expStrg[r] = "unopened" /\ expStrg'[r] = "open")
          => outPathExists]_vars

\* C9: only rank 0 creates the output directory, at most once, and neither
\* the directory is created nor the storage opened by any process before
\* every process has finished its workload, set stop and collected its
\* subprocess result.
C9_OutputAfterAllCollected ==
  /\ \A r \in Ranks : mkdirCalls[r] > 0 => (r = 0 /\ mkdirCalls[r] = 1)
  /\ (\E r \in Ranks : mkdirCalls[r] > 0 \/ expStrg[r] # "unopened")
        => \A q \in Ranks : ResultCollected(q)

\* C9 witness: rank 0 created the directory and another rank opened the
\* storage.
C9_Witness ==
  /\ mkdirCalls[0] = 1
  /\ \E r \in Ranks : r # 0 /\ expStrg[r] = "open"

\* C10: no process is past the barrier of line 166 (about to postprocess, or
\* having done so) unless every process has registered its run and, when it
\* holds a buffer, saved its device data.
C10_PostprocessAfterAllPersisted ==
  \A r \in Ranks :
    (PastBarrier(r, 3) \/ postCalls[r] > 0) =>
       \A q \in Ranks : PersistenceDone(q)

\* C10 witness: a process has postprocessed while the run holds both a
\* buffer and a null marker.
C10_Witness ==
  \E r, q, p \in Ranks :
    /\ postCalls[r] = 1
    /\ lStrg[q] = None /\ Len(runs[q]) = 1
    /\ lStrg[p].kind = "LocalStorage" /\ Len(deviceData[p]) = 1

\* the run completed in process r: monitor() returned through line 173
Completed(r) == pc[r] = "returned" /\ expStrg[r] = "closed"

\* number of comm.barrier() calls that precede each barrier line, plus one
BarrierIndex(l) ==
  CASE l = "L122" -> 1
    [] l = "L146" -> 2
    [] l = "L166" -> 3
    [] l = "L168" -> 4
    [] l = "L172" -> 5

\* C11 (as claimed): on a run that completes, every process has called the
\* barrier exactly three times.
C11_ThreeBarrierCalls ==
  \A r \in Ranks : Completed(r) => bcount[r] = 3

\* C11 (amended): on a run that completes, every process has called the
\* barrier exactly five times, at lines 122, 146, 166, 168 and 172 in this
\* order, and at no other point.
C11_FiveBarrierCalls ==
  \A r \in Ranks :
    /\ bcount[r] <= 5
    /\ Completed(r) => bcount[r] = 5
    /\ inBarrier[r] => pc[r] \in BarrierLines
    /\ pc[r] \in BarrierLines =>
         bcount[r] = BarrierIndex(pc[r]) - (IF inBarrier[r] THEN 0 ELSE 1)

\* C11 witness: every process completed its run.
C11_Witness == \A r \in Ranks : Completed(r) /\ bcount[r] = 5

\* C12: when the workload of one process fails while the workload of a peer
\* returns, the peer never gets past the barrier of line 146: it never opens
\* the storage, registers a run or returns, and once inside that barrier it
\* stays inside it.
C12_PeerBlockedInSecondBarrier ==
  /\ [](\A r, q \in Ranks :
          (WorkloadFailed(r) /\ workload[q] = "returned") =>
             /\ ~PastBarrier(q, 2)
             /\ expStrg[q] = "unopened" /\ runs[q] = << >>
             /\ ~Ended(q))
  /\ [][\A r, q \in Ranks :
          (WorkloadFailed(r) /\ pc[q] = "L146" /\ inBarrier[q]) =>
             (pc'[q] = "L146" /\ inBarrier'[q])]_vars

\* C12 witness: a process that collected the buffer of its subprocess is
\* inside its second barrier call while the failed peer made only one.
C12_Witness ==
  \E r, q \in Ranks :
    /\ WorkloadFailed(r) /\ Ended(r) /\ bcount[r] = 1
    /\ lStrg[q].kind = "LocalStorage" /\ bcount[q] = 2 /\ inBarrier[q]

\* the run is over: every process has left the command or is inside a
\* barrier call that a process which left the command will never make
RunOver ==
  \A r \in Ranks :
    \/ Ended(r)
    \/ inBarrier[r] /\ \E q \in Ranks : Ended(q) /\ bcount[q] < bcount[r]

\* C13: at the end of every run either every process has registered its run
\* or no process has.
C13_AllOrNothingRuns ==
  RunOver => (\/ \A q \in Ranks : Len(runs[q]) = 1
              \/ \A q \in Ranks : runs[q] = << >>)

\* the process has executed lines 158-163 to the end
PersistStepDone(r) == pc[r] = "L166" \/ bcount[r] >= 3

\* C14: a process that went through the persistence step registered exactly
\* one run, holding its buffer or the null marker, and saved device data
\* exactly when it holds a buffer; past the barrier of line 166 all
\* processes have registered the same number of runs.
C14_OneRunPerProcess ==
  \A r \in Ranks :
    /\ Len(runs[r]) <= 1 /\ Len(deviceData[r]) <= 1
    /\ PersistStepDone(r) =>
         /\ runs[r] = << lStrg[r] >>
         /\ lStrg[r] = None => deviceData[r] = << >>
         /\ lStrg[r] # None => deviceData[r] = << lStrg[r] >>
    /\ PastBarrier(r, 3) => \A q \in Ranks : Len(runs[q]) = Len(runs[r])

\* C14 witness: past the barrier of line 166 one process registered the null
\* marker without device data and another registered its buffer.
C14_Witness ==
  \E r, q \in Ranks :
    /\ PastBarrier(r, 3) /\ PastBarrier(q, 3)
    /\ runs[r] = << None >> /\ deviceData[r] = << >>
    /\ Len(runs[q]) = 1 /\ runs[q][1].kind = "LocalStorage"

\* C15: only rank 0 prints a report, at most once, and only after every
\* process has finished postprocessing.
C15_ReportOnlyRankZero ==
  \A r \in Ranks :
    reportCalls[r] > 0 =>
      /\ r = 0 /\ reportCalls[r] = 1
      /\ \A q \in Ranks : postCalls[q] = 1

\* C15 witness: rank 0 printed the report and another rank went through
\* line 169 without printing.
C15_Witness ==
  /\ reportCalls[0] = 1
  /\ \E r \in Ranks : r # 0 /\ pc[r] = "L172" /\ reportCalls[r] = 0

\* C16: when the workload returned in a process that started a subprocess,
\* the orchestrator, which joins the subprocess before reading the queue,
\* eventually holds the buffer of the subprocess.
C16_ResultEventuallyCollected ==
  \A r \in Ranks :
    (pc[r] = "L138" /\ lDeviceIds[r] # {}) ~>
       (pc[r] = "L146" /\ lStrg[r].kind = "LocalStorage")

\* C17: a process that opened the storage handle has closed it when its
\* command ends, on the failure path as on the success path.
C17_StorageClosedAtEnd ==
  \A r \in Ranks : Ended(r) => expStrg[r] # "open"

\* C18: when a started subprocess fails before signaling readiness, the
\* orchestrator eventually aborts with an error.
C18_SetupFailureAborts ==
  \A r \in Ranks : (perunSP[r] = "failed") ~> (pc[r] = "raised")

\* C19 (as claimed): in every process, whenever stop_event is set,
\* start_event is set.
C19_StartBeforeStop ==
  \A r \in Ranks : stop_event[r] => start_event[r]

\* C19 (amended): in every process that started a subprocess, whenever
\* stop_event is set, start_event is set; in a process with no devices
\* start_event is never set.
C19_StartBeforeStopWithSubprocess ==
  \A r \in Ranks :
    /\ (stop_event[r] /\ spawnCalls[r] > 0) => start_event[r]
    /\ assignment[r] = {} => ~start_event[r]

\* C19 witness: stop is set in a process that started a subprocess and in a
\* process that did not.
C19_Witness ==
  \E r, q \in Ranks :
    /\ stop_event[r] /\ spawnCalls[r] = 1
    /\ stop_event[q] /\ spawnCalls[q] = 0

\* something the premises of C20 exclude has happened: a workload failed, a
\* subprocess failed or cannot exit, or a storage or postprocessing call
\* raised
SomethingFailed ==
  \E r \in Ranks :
    \/ WorkloadFailed(r)
    \/ perunSP[r] = "failed"
    \/ pc[r] = "raised"
    \/ perunSP[r] = "flushing" /\ feeder[r] > 0 /\ pipe[r] = PipeCapacity

\* C20: unless a workload, a subprocess or a storage call fails, every
\* process eventually returns with its storage handle closed, and then all
\* processes have made the same number of barrier calls.
C20_AllProcessesClose ==
  /\ <>(SomethingFailed \/ \A r \in Ranks : Completed(r))
  /\ []((\A r \in Ranks : Completed(r)) =>
          \A r, q \in Ranks : bcount[r] = bcount[q])

\* C20 witness: every process completed, one that owns devices and one that
\* owns none, rank 0 and another rank.
C20_Witness ==
  /\ \A r \in Ranks : Completed(r)
  /\ \E r, q \in Ranks : assignment[r] # {} /\ assignment[q] = {}
====
